---- MODULE Spec2Model ----
(***************************************************************************)
(* Driver of the Waveshare 7.5" tri-colour e-paper panel, revision V3      *)
(* (src/epd7in5bc_v3/mod.rs).                                              *)
(*                                                                         *)
(* Every function of the driver is a straight line of calls into the       *)
(* command channel (crate::interface::DisplayInterface) plus one loop,     *)
(* wait_until_idle.  Each function is written down below as the list of    *)
(* its statements; the actions execute one statement of the running        *)
(* function at a time against a transport whose byte writes may fail and   *)
(* whose busy line is driven by the panel.  `log` records every transport  *)
(* call of the operation in flight.                                        *)
(***************************************************************************)
EXTENDS Integers, Sequences, FiniteSets, TLC

VARIABLES
    stack,      \* call stack of the calling thread, innermost frame last
    log,        \* transport calls made by the operation in flight, in order
    result,     \* what the operation in flight has returned so far
    call,       \* the public operation in flight (or the last one) and its arguments
    epd,        \* TRUE once new has returned a driver value
    color,      \* Epd7in5bc.color
    stuck,      \* TRUE when the busy line is held at "busy" (dead panel)
    newLog,     \* the transport calls of the initialization run by new
    slept       \* TRUE from a completed sleep to the next completed wake_up

vars == <<stack, log, result, call, epd, color, stuck, newLog, slept>>

----------------------------------------------------------------------------
(* Program constants *)

WIDTH == 800
HEIGHT == 480
DEFAULT_BACKGROUND_COLOR == "White"
IS_BUSY_LOW == TRUE
NUM_DISPLAY_BITS == (WIDTH * HEIGHT) \div 8

TriColor == {"Black", "White", "Chromatic"}

(* Bounds of the model *)

\* most busy readings the panel gives during one wait_until_idle
MaxPolls == 3

\* the errors the transport's byte write can fail with
Errors == {"E1", "E2"}
NoErr == "none"

----------------------------------------------------------------------------
(* Byte strings.  A plane is WIDTH*HEIGHT/8 = 48000 bytes, so a byte string *)
(* is kept as its runs: <<[v |-> b, n |-> k], ...>> is k times the byte b,  *)
(* and so on; adjacent runs differ in v and no run is empty, so that two    *)
(* byte strings are equal exactly when their runs are.                      *)

Run(v, n) == [v |-> v, n |-> n]

RECURSIVE Norm(_)
Norm(r) ==
    IF Len(r) = 0 THEN <<>>
    ELSE IF r[1].n = 0 THEN Norm(Tail(r))
    ELSE LET t == Norm(Tail(r)) IN
         IF Len(t) > 0 /\ t[1].v = r[1].v
         THEN <<Run(r[1].v, r[1].n + t[1].n)>> \o Tail(t)
         ELSE <<r[1]>> \o t

\* a slice literal &[b1, b2, ...]
Slice(bytes) == Norm([i \in 1..Len(bytes) |-> Run(bytes[i], 1)])

RECURSIVE ByteLen(_)
ByteLen(r) == IF Len(r) = 0 THEN 0 ELSE r[1].n + ByteLen(Tail(r))

\* every byte of r equals b
AllBytes(r, b) == \A i \in 1..Len(r) : r[i].v = b

\* the buffers a caller hands in: two of the exact plane size and a short one
Buffers ==
    { Norm(<<Run(170, NUM_DISPLAY_BITS)>>),
      Norm(<<Run(15, 1), Run(0, NUM_DISPLAY_BITS - 2), Run(240, 1)>>),
      Norm(<<Run(1, 2)>>) }

----------------------------------------------------------------------------
(* Transport calls, as recorded in log *)

Ev(k, c, d, n, err) == [k |-> k, c |-> c, d |-> d, n |-> n, err |-> err]

ResetEv(ms)      == Ev("reset", "-", <<>>, ms, NoErr)
CmdEv(c, err)    == Ev("cmd", c, <<>>, 0, err)
DataEv(d, err)   == Ev("data", "-", d, 0, err)
DelayEv(ms)      == Ev("delay", "-", <<>>, ms, NoErr)
BusyEv(level)    == Ev("busy", level, <<>>, 0, NoErr)

Levels == {"low", "high"}

\* DisplayInterface::is_busy: the raw level of the busy line read with the
\* variant's polarity
interface_is_busy(is_busy_low, level) ==
    \/ is_busy_low /\ level = "low"
    \/ ~is_busy_low /\ level = "high"

----------------------------------------------------------------------------
(* Statements.  mode is what the caller does with the Result of the call:  *)
(* "try" is the ? operator, "tail" returns it as the function's own value, *)
(* "ignore" drops it, "unit" is a call that returns nothing.               *)

NoArgs == [buffer |-> <<>>, chromatic |-> <<>>, color |-> "-",
           rect |-> <<0, 0, 0, 0>>, lut |-> "-"]

Stmt(i, c, d, n, mode) ==
    [i |-> i, c |-> c, d |-> d, n |-> n, mode |-> mode,
     fn |-> "-", arg |-> NoArgs, low |-> FALSE]

\* DisplayInterface: cmd, data, cmd_with_data, data_x_times, reset
interface_cmd(c, mode)  == <<Stmt("cmd", c, <<>>, 0, mode)>>
interface_data(d, mode) == <<Stmt("data", "-", d, 0, mode)>>
interface_cmd_with_data(c, d, mode) ==
    interface_cmd(c, "try") \o interface_data(d, mode)
interface_data_x_times(val, repetitions, mode) ==
    <<Stmt("data", "-", Norm(<<Run(val, repetitions)>>), 0, mode)>>
interface_reset(duration) == <<Stmt("reset", "-", <<>>, duration, "unit")>>

delay_ms(ms) == <<Stmt("delay", "-", <<>>, ms, "unit")>>
Call(fn, arg, mode) ==
    <<[Stmt("call", "-", <<>>, 0, mode) EXCEPT !.fn = fn, !.arg = arg]>>
\* while self.interface.is_busy(is_busy_low) { ... }: leaves to statement exit
While(is_busy_low, exit) ==
    <<[Stmt("while", "-", <<>>, exit, "unit") EXCEPT !.low = is_busy_low]>>
Goto(pc) == <<Stmt("goto", "-", <<>>, pc, "unit")>>
ReturnOk == <<Stmt("ok", "-", <<>>, 0, "tail")>>
Unimplemented == <<Stmt("unimplemented", "-", <<>>, 0, "unit")>>

\* Epd7in5bc::command, send_data, command_with_data
command(c, mode) == interface_cmd(c, mode)
send_data(d, mode) == interface_data(d, mode)
command_with_data(c, d, mode) == interface_cmd_with_data(c, d, mode)

----------------------------------------------------------------------------
(* The functions of the driver *)

\* wait_until_idle with the result of the status query dropped
wait_until_idle_ignoring ==
       While(IS_BUSY_LOW, 5)
    \o interface_cmd("Revision", "ignore")
    \o delay_ms(20)
    \o Goto(1)
    \o ReturnOk

\* wait_until_idle as a do-while: query and sleep first, then read the line
wait_until_idle_do_while ==
       interface_cmd("Revision", "try")
    \o delay_ms(20)
    \o While(IS_BUSY_LOW, 5)
    \o Goto(1)
    \o ReturnOk

\* wait_until_idle without the delay between the polls
wait_until_idle_no_delay ==
       While(IS_BUSY_LOW, 4)
    \o interface_cmd("Revision", "try")
    \o Goto(1)
    \o ReturnOk

\* wait_until_idle giving up after two polls
wait_until_idle_timeout ==
       While(IS_BUSY_LOW, 7)
    \o interface_cmd("Revision", "try")
    \o delay_ms(20)
    \o While(IS_BUSY_LOW, 7)
    \o interface_cmd("Revision", "try")
    \o delay_ms(20)
    \o ReturnOk

\* wait_until_idle reading the busy line once and spinning on that reading
wait_until_idle_spin ==
       While(IS_BUSY_LOW, 3)
    \o Goto(2)
    \o ReturnOk

wait_until_idle ==
       While(IS_BUSY_LOW, 5)
    \o interface_cmd("Revision", "try")
    \o delay_ms(20)
    \o Goto(1)
    \o ReturnOk

\* init with the panel configured before the power-on wait
init_reordered ==
       interface_reset(2)
    \o command_with_data("PowerSetting", Slice(<<7, 7, 63, 63>>), "try")
    \o command("PowerOn", "try")
    \o command_with_data("PanelSetting", Slice(<<15>>), "try")
    \o Call("wait_until_idle", NoArgs, "try")
    \o command_with_data("TconResolution", Slice(<<3, 32, 1, 224>>), "try")
    \o command_with_data("DualSpi", Slice(<<0>>), "try")
    \o command_with_data("VcomAndDataIntervalSetting", Slice(<<17, 7>>), "try")
    \o command_with_data("TconSetting", Slice(<<34>>), "try")
    \o command_with_data("GateSourceStart", Slice(<<0, 0, 0, 0>>), "try")
    \o ReturnOk

init ==
       interface_reset(2)
    \o command_with_data("PowerSetting", Slice(<<7, 7, 63, 63>>), "try")
    \o command("PowerOn", "try")
    \o Call("wait_until_idle", NoArgs, "try")
    \o command_with_data("PanelSetting", Slice(<<15>>), "try")
    \o command_with_data("TconResolution", Slice(<<3, 32, 1, 224>>), "try")
    \o command_with_data("DualSpi", Slice(<<0>>), "try")
    \o command_with_data("VcomAndDataIntervalSetting", Slice(<<17, 7>>), "try")
    \o command_with_data("TconSetting", Slice(<<34>>), "try")
    \o command_with_data("GateSourceStart", Slice(<<0, 0, 0, 0>>), "try")
    \o ReturnOk

update_achromatic_frame(black) ==
    command_with_data("DataStartTransmissionBlackWhite", black, "tail")

\* update_chromatic_frame that also triggers the refresh
update_chromatic_frame_refreshing(chromatic) ==
       command_with_data("DataStartTransmissionChromatic", chromatic, "try")
    \o command("DisplayRefresh", "tail")

update_chromatic_frame(chromatic) ==
    command_with_data("DataStartTransmissionChromatic", chromatic, "tail")

\* update_color_frame sending the chromatic plane first
update_color_frame_swapped(black, chromatic) ==
       Call("update_chromatic_frame", [NoArgs EXCEPT !.chromatic = chromatic], "try")
    \o Call("update_achromatic_frame", [NoArgs EXCEPT !.buffer = black], "tail")

update_color_frame(black, chromatic) ==
       Call("update_achromatic_frame", [NoArgs EXCEPT !.buffer = black], "try")
    \o Call("update_chromatic_frame", [NoArgs EXCEPT !.chromatic = chromatic], "tail")

new ==
       <<Stmt("construct", DEFAULT_BACKGROUND_COLOR, <<>>, 0, "unit")>>
    \o Call("init", NoArgs, "try")
    \o ReturnOk

\* a wake path that only powers the panel on again
wake_up_light ==
       command("PowerOn", "try")
    \o Call("wait_until_idle", NoArgs, "try")
    \o ReturnOk

\* wake_up that also clears the panel after the initialization
wake_up_clearing ==
       Call("init", NoArgs, "try")
    \o Call("clear_frame", NoArgs, "tail")

wake_up == Call("init", NoArgs, "tail")

\* sleep that does not wait for the power-off to finish
sleep_without_wait ==
       command("PowerOff", "try")
    \o command_with_data("DeepSleep", Slice(<<165>>), "try")
    \o ReturnOk

sleep ==
       command("PowerOff", "try")
    \o Call("wait_until_idle", NoArgs, "try")
    \o command_with_data("DeepSleep", Slice(<<165>>), "try")
    \o ReturnOk

\* update_frame with a chromatic burst of half a plane
update_frame_half_burst(buffer) ==
       Call("wait_until_idle", NoArgs, "try")
    \o command_with_data("DataStartTransmissionBlackWhite", buffer, "try")
    \o command("DataStartTransmissionChromatic", "try")
    \o interface_data_x_times(0, (WIDTH * HEIGHT) \div 16, "try")
    \o Call("wait_until_idle", NoArgs, "try")
    \o ReturnOk

\* update_frame returning right after the chromatic burst
update_frame_no_final_wait(buffer) ==
       Call("wait_until_idle", NoArgs, "try")
    \o command_with_data("DataStartTransmissionBlackWhite", buffer, "try")
    \o command("DataStartTransmissionChromatic", "try")
    \o interface_data_x_times(0, (WIDTH * HEIGHT) \div 8, "try")
    \o ReturnOk

update_frame(buffer) ==
       Call("wait_until_idle", NoArgs, "try")
    \o command_with_data("DataStartTransmissionBlackWhite", buffer, "try")
    \o command("DataStartTransmissionChromatic", "try")
    \o interface_data_x_times(0, (WIDTH * HEIGHT) \div 8, "try")
    \o Call("wait_until_idle", NoArgs, "try")
    \o ReturnOk

\* update_partial_frame falling back to a full update
update_partial_frame_full(buffer, x, y, width, height) == update_frame(buffer)

update_partial_frame(buffer, x, y, width, height) == Unimplemented

\* display_frame polling right after the refresh opcode
display_frame_no_delay ==
       command("DisplayRefresh", "try")
    \o Call("wait_until_idle", NoArgs, "try")
    \o ReturnOk

display_frame ==
       command("DisplayRefresh", "try")
    \o delay_ms(100)
    \o Call("wait_until_idle", NoArgs, "try")
    \o ReturnOk

\* update_and_display_frame refreshing before the new frame is transmitted
update_and_display_frame_swapped(buffer) ==
       Call("display_frame", NoArgs, "try")
    \o Call("update_frame", [NoArgs EXCEPT !.buffer = buffer], "try")
    \o ReturnOk

update_and_display_frame(buffer) ==
       Call("update_frame", [NoArgs EXCEPT !.buffer = buffer], "try")
    \o Call("display_frame", NoArgs, "try")
    \o ReturnOk

\* clear_frame filling the achromatic plane with 0x00
clear_frame_black_fill ==
       Call("wait_until_idle", NoArgs, "try")
    \o command("DataStartTransmissionBlackWhite", "try")
    \o interface_data_x_times(0, (WIDTH * HEIGHT) \div 8, "try")
    \o command("DataStartTransmissionChromatic", "try")
    \o interface_data_x_times(0, (WIDTH * HEIGHT) \div 8, "try")
    \o command("DisplayRefresh", "try")
    \o ReturnOk

\* clear_frame finishing like display_frame: settle delay and idle wait
clear_frame_waiting ==
       Call("wait_until_idle", NoArgs, "try")
    \o command("DataStartTransmissionBlackWhite", "try")
    \o interface_data_x_times(255, (WIDTH * HEIGHT) \div 8, "try")
    \o command("DataStartTransmissionChromatic", "try")
    \o interface_data_x_times(0, (WIDTH * HEIGHT) \div 8, "try")
    \o command("DisplayRefresh", "try")
    \o delay_ms(100)
    \o Call("wait_until_idle", NoArgs, "try")
    \o ReturnOk

\* clear_frame filling the achromatic plane with the background colour
clear_frame_background ==
       Call("wait_until_idle", NoArgs, "try")
    \o command("DataStartTransmissionBlackWhite", "try")
    \o interface_data_x_times(IF color = "Black" THEN 0 ELSE 255,
                              (WIDTH * HEIGHT) \div 8, "try")
    \o command("DataStartTransmissionChromatic", "try")
    \o interface_data_x_times(0, (WIDTH * HEIGHT) \div 8, "try")
    \o command("DisplayRefresh", "try")
    \o ReturnOk

clear_frame ==
       Call("wait_until_idle", NoArgs, "try")
    \o command("DataStartTransmissionBlackWhite", "try")
    \o interface_data_x_times(255, (WIDTH * HEIGHT) \div 8, "try")
    \o command("DataStartTransmissionChromatic", "try")
    \o interface_data_x_times(0, (WIDTH * HEIGHT) \div 8, "try")
    \o command("DisplayRefresh", "try")
    \o ReturnOk

set_background_color(c) == <<Stmt("set_color", c, <<>>, 0, "tail")>>

set_lut(refresh_rate) == Unimplemented

\* is_busy read with the other polarity
is_busy_high == <<[Stmt("is_busy", "-", <<>>, 0, "tail") EXCEPT !.low = ~IS_BUSY_LOW]>>

is_busy == <<[Stmt("is_busy", "-", <<>>, 0, "tail") EXCEPT !.low = IS_BUSY_LOW]>>

\* the statements of the function a frame runs
Prog(f) ==
    CASE f.fn = "wait_until_idle" -> wait_until_idle
      [] f.fn = "init" -> init
      [] f.fn = "update_achromatic_frame" -> update_achromatic_frame(f.arg.buffer)
      [] f.fn = "update_chromatic_frame" -> update_chromatic_frame(f.arg.chromatic)
      [] f.fn = "update_color_frame" ->
            update_color_frame(f.arg.buffer, f.arg.chromatic)
      [] f.fn = "new" -> new
      [] f.fn = "wake_up" -> wake_up
      [] f.fn = "sleep" -> sleep
      [] f.fn = "update_frame" -> update_frame(f.arg.buffer)
      [] f.fn = "update_partial_frame" ->
            update_partial_frame(f.arg.buffer, f.arg.rect[1], f.arg.rect[2],
                                 f.arg.rect[3], f.arg.rect[4])
      [] f.fn = "display_frame" -> display_frame
      [] f.fn = "update_and_display_frame" -> update_and_display_frame(f.arg.buffer)
      [] f.fn = "clear_frame" -> clear_frame
      [] f.fn = "set_background_color" -> set_background_color(f.arg.color)
      [] f.fn = "set_lut" -> set_lut(f.arg.lut)
      [] f.fn = "is_busy" -> is_busy

----------------------------------------------------------------------------
(* The state of the calling thread *)

Res(kind, err, val) == [kind |-> kind, err |-> err, val |-> val]
InFlight == Res("Running", NoErr, FALSE)
Idle     == Res("None", NoErr, FALSE)
OkRes    == Res("Ok", NoErr, FALSE)
ErrRes(e) == Res("Err", e, FALSE)
Panic    == Res("Panic", NoErr, FALSE)

\* base is the length of log when the function was entered
Frame(fn, arg, base) == [fn |-> fn, arg |-> arg, pc |-> 1, base |-> base]

Running == Len(stack) > 0
Top == stack[Len(stack)]
Cur == Prog(Top)[Top.pc]
Front(s) == SubSeq(s, 1, Len(s) - 1)
Advance(s) == [s EXCEPT ![Len(s)].pc = @ + 1]
Jump(s, pc) == [s EXCEPT ![Len(s)].pc = pc]

\* the transport calls made since the innermost function was entered
Since(f) == SubSeq(log, f.base + 1, Len(log))
\* busy readings of the running wait_until_idle that reported busy
Polls == Cardinality({i \in 1..Len(Since(Top)) : Since(Top)[i].k = "busy"})

\* The statement the innermost frame of s is at has produced r: the frame goes
\* on with its next statement, or returns r to its caller, which does the same.
RECURSIVE Return(_, _)
Return(s, r) ==
    IF Len(s) = 0 THEN [stack |-> <<>>, result |-> r]
    ELSE LET m == Prog(s[Len(s)])[s[Len(s)].pc].mode IN
         IF m = "tail" \/ (m = "try" /\ r.kind = "Err")
         THEN Return(Front(s), r)
         ELSE [stack |-> Advance(s), result |-> InFlight]

\* the step ends with the stack and result of out and the log l; new hands
\* out the driver value when it returns Ok; slept follows the completed
\* sleep and wake_up calls (the driver itself keeps no such field)
Settle(out, l) ==
    /\ stack' = out.stack
    /\ result' = out.result
    /\ log' = l
    /\ epd' = (epd \/ (call.op = "new" /\ out.result.kind = "Ok"))
    /\ newLog' = IF call.op = "new" /\ out.result.kind = "Ok" THEN l ELSE newLog
    /\ slept' = IF out.result.kind # "Ok" THEN slept
                ELSE IF call.op = "sleep" THEN TRUE
                ELSE IF call.op = "wake_up" THEN FALSE
                ELSE slept

----------------------------------------------------------------------------
(* The calls a program makes on the driver *)

Rects == {<<0, 0, 8, 8>>, <<8, 16, 800, 480>>}
RefreshLuts == {"None", "Full", "Quick"}

PublicCalls ==
         [op : {"new", "wake_up", "sleep", "display_frame", "clear_frame", "is_busy"},
          arg : {NoArgs}]
    \cup [op : {"update_frame", "update_and_display_frame", "update_achromatic_frame"},
          arg : {[NoArgs EXCEPT !.buffer = b] : b \in Buffers}]
    \cup [op : {"update_chromatic_frame"},
          arg : {[NoArgs EXCEPT !.chromatic = b] : b \in Buffers}]
    \cup [op : {"update_color_frame"},
          arg : {[NoArgs EXCEPT !.buffer = b, !.chromatic = c] :
                    b \in Buffers, c \in Buffers}]
    \cup [op : {"set_background_color"},
          arg : {[NoArgs EXCEPT !.color = c] : c \in TriColor}]
    \cup [op : {"update_partial_frame"},
          arg : {[NoArgs EXCEPT !.buffer = b, !.rect = r] :
                    b \in Buffers, r \in Rects}]
    \cup [op : {"set_lut"},
          arg : {[NoArgs EXCEPT !.lut = l] : l \in RefreshLuts}]

Init ==
    /\ stack = <<>>
    /\ log = <<>>
    /\ result = Idle
    /\ call = [op |-> "-", arg |-> NoArgs]
    /\ epd = FALSE
    /\ color = "-"
    /\ stuck = FALSE
    /\ newLog = <<>>
    /\ slept = FALSE

\* The caller starts a public operation.  new is the constructor; every other
\* operation is a method of the driver value new returned.  A panic
\* (unimplemented!) ends the program.
Invoke ==
    /\ ~Running
    /\ result.kind # "Panic"
    /\ \E c \in PublicCalls :
        /\ (c.op = "new") <=> ~epd
        /\ call' = c
        /\ stack' = <<Frame(c.op, c.arg, 0)>>
    /\ log' = <<>>
    /\ result' = InFlight
    /\ stuck' \in BOOLEAN
    /\ UNCHANGED <<epd, color, newLog, slept>>

\* let color = DEFAULT_BACKGROUND_COLOR; let mut epd = Epd7in5bc { .. }
ExecConstruct ==
    /\ Running /\ Cur.i = "construct"
    /\ color' = Cur.c
    /\ Settle(Return(stack, OkRes), log)
    /\ UNCHANGED <<call, stuck>>

\* self.color = color
ExecSetColor ==
    /\ Running /\ Cur.i = "set_color"
    /\ color' = Cur.c
    /\ Settle(Return(stack, OkRes), log)
    /\ UNCHANGED <<call, stuck>>

\* reset pulse
ExecReset ==
    /\ Running /\ Cur.i = "reset"
    /\ Settle(Return(stack, OkRes), Append(log, ResetEv(Cur.n)))
    /\ UNCHANGED <<call, color, stuck>>

\* delay.delay_ms(ms)
ExecDelay ==
    /\ Running /\ Cur.i = "delay"
    /\ Settle(Return(stack, OkRes), Append(log, DelayEv(Cur.n)))
    /\ UNCHANGED <<call, color, stuck>>

\* one opcode byte written with data/command-select at "command"; the write
\* succeeds or fails with an error of the transport
ExecCmd ==
    /\ Running /\ Cur.i = "cmd"
    /\ \E e \in Errors \cup {NoErr} :
        Settle(Return(stack, IF e = NoErr THEN OkRes ELSE ErrRes(e)),
               Append(log, CmdEv(Cur.c, e)))
    /\ UNCHANGED <<call, color, stuck>>

\* a data burst written with data/command-select at "data"
ExecData ==
    /\ Running /\ Cur.i = "data"
    /\ \E e \in Errors \cup {NoErr} :
        Settle(Return(stack, IF e = NoErr THEN OkRes ELSE ErrRes(e)),
               Append(log, DataEv(Cur.d, e)))
    /\ UNCHANGED <<call, color, stuck>>

\* a call of another function of the driver
ExecCall ==
    /\ Running /\ Cur.i = "call"
    /\ stack' = Append(stack, Frame(Cur.fn, Cur.arg, Len(log)))
    /\ UNCHANGED <<log, result, call, epd, color, stuck, newLog, slept>>

\* the loop condition of wait_until_idle: one reading of the busy line
ExecWhile ==
    /\ Running /\ Cur.i = "while"
    /\ \E level \in Levels :
        LET busy == interface_is_busy(Cur.low, level) IN
        /\ busy => Polls < MaxPolls
        /\ stuck => level = "low"
        /\ Settle([stack |-> IF busy THEN Advance(stack) ELSE Jump(stack, Cur.n),
                   result |-> InFlight],
                  Append(log, BusyEv(level)))
    /\ UNCHANGED <<call, color, stuck>>

\* the end of the loop body
ExecGoto ==
    /\ Running /\ Cur.i = "goto"
    /\ stack' = Jump(stack, Cur.n)
    /\ UNCHANGED <<log, result, call, epd, color, stuck, newLog, slept>>

\* Ok(()) and, in new, Ok(epd)
ExecOk ==
    /\ Running /\ Cur.i = "ok"
    /\ Settle(Return(stack, OkRes), log)
    /\ UNCHANGED <<call, color, stuck>>

\* the public is_busy: one reading of the busy line, returned
ExecIsBusy ==
    /\ Running /\ Cur.i = "is_busy"
    /\ \E level \in Levels :
        /\ stuck => level = "low"
        /\ Settle(Return(stack, Res("Ok", NoErr, interface_is_busy(Cur.low, level))),
                  Append(log, BusyEv(level)))
    /\ UNCHANGED <<call, color, stuck>>

\* unimplemented!(): the thread panics
ExecUnimplemented ==
    /\ Running /\ Cur.i = "unimplemented"
    /\ Settle([stack |-> <<>>, result |-> Panic], log)
    /\ UNCHANGED <<call, color, stuck>>

Next ==
    \/ Invoke
    \/ ExecConstruct
    \/ ExecSetColor
    \/ ExecReset
    \/ ExecDelay
    \/ ExecCmd
    \/ ExecData
    \/ ExecCall
    \/ ExecWhile
    \/ ExecGoto
    \/ ExecOk
    \/ ExecIsBusy
    \/ ExecUnimplemented

Spec == Init /\ [][Next]_vars

\* a step of the calling thread inside the operation in flight
Step ==
    \/ ExecConstruct
    \/ ExecSetColor
    \/ ExecReset
    \/ ExecDelay
    \/ ExecCmd
    \/ ExecData
    \/ ExecCall
    \/ ExecWhile
    \/ ExecGoto
    \/ ExecOk
    \/ ExecIsBusy
    \/ ExecUnimplemented

\* Whether an operation returns does not depend on the calls made before
\* it (no statement reads the state of the driver), so for termination the
\* caller constructs the driver and then calls one operation.
InvokeOnce == Invoke /\ call.op \in {"-", "new"}

NextOnce == InvokeOnce \/ Step

\* The calling thread runs every operation it has entered to its end: the
\* code is synchronous and is never suspended by anything but its own loop.
\* A panel that is not dead reads idle after at most MaxPolls busy readings.
FairSpec == Init /\ [][NextOnce]_vars /\ WF_vars(Step)

----------------------------------------------------------------------------
(* Vocabulary of the properties *)

Done(op)   == ~Running /\ call.op = op
DoneOk(op) == Done(op) /\ result.kind = "Ok"

\* the events of l that satisfy Test, counted
Count(l, Test(_)) == Cardinality({i \in 1..Len(l) : Test(l[i])})

IsBusyRead(e)  == e.k = "busy"
IsBusyLow(e)   == e.k = "busy" /\ e.c = "low"
IsRevision(e)  == e.k = "cmd" /\ e.c = "Revision"
IsDelay20(e)   == e.k = "delay" /\ e.n = 20
IsWrite(e)     == e.k \in {"cmd", "data"}
IsFailed(e)    == e.err # NoErr
\* an event of a busy-wait: a busy reading, a status query or the 20 ms delay
IsWaitEv(e)    == IsBusyRead(e) \/ IsRevision(e) \/ IsDelay20(e)
NotWaitEv(e)   == ~IsWaitEv(e)

\* n rounds of "the line read busy, one status query, 20 ms" ...
RECURSIVE Polling(_)
Polling(n) ==
    IF n = 0 THEN <<>>
    ELSE <<BusyEv("low"), CmdEv("Revision", NoErr), DelayEv(20)>> \o Polling(n - 1)
\* ... and the reading that found the line idle
BusyWait(n) == Polling(n) \o <<BusyEv("high")>>

IsPrefix(a, b) == Len(a) <= Len(b) /\ a = SubSeq(b, 1, Len(a))

\* the log with the error of a failed write blanked
Attempted(l) == [i \in 1..Len(l) |-> [l[i] EXCEPT !.err = NoErr]]

\* the levels the busy line was read at, in order
BusyLevels(l) ==
    LET r == SelectSeq(l, IsBusyRead) IN [i \in 1..Len(r) |-> r[i].c]

----------------------------------------------------------------------------
(* C1 *)

InitHead ==
    << ResetEv(2),
       CmdEv("PowerSetting", NoErr), DataEv(Slice(<<7, 7, 63, 63>>), NoErr),
       CmdEv("PowerOn", NoErr) >>
InitTail ==
    << CmdEv("PanelSetting", NoErr), DataEv(Slice(<<15>>), NoErr),
       CmdEv("TconResolution", NoErr), DataEv(Slice(<<3, 32, 1, 224>>), NoErr),
       CmdEv("DualSpi", NoErr), DataEv(Slice(<<0>>), NoErr),
       CmdEv("VcomAndDataIntervalSetting", NoErr), DataEv(Slice(<<17, 7>>), NoErr),
       CmdEv("TconSetting", NoErr), DataEv(Slice(<<34>>), NoErr),
       CmdEv("GateSourceStart", NoErr), DataEv(Slice(<<0, 0, 0, 0>>), NoErr) >>
InitSequence(n) == InitHead \o BusyWait(n) \o InitTail

\* C1: the initialization run by new emits, in this order and nothing else,
\* the reset pulse (2), PowerSetting [07 07 3F 3F], PowerOn, one busy-wait,
\* PanelSetting [0F], TconResolution [03 20 01 E0], DualSpi [00],
\* VcomAndDataIntervalSetting [11 07], TconSetting [22], GateSourceStart
\* [00 00 00 00]; the one busy-wait sits between PowerOn and PanelSetting
\* however often the busy line reads busy.  While new runs, and when a write
\* fails, what was emitted is a beginning of that sequence.
C1_InitSequence ==
    call.op = "new" =>
        LET n == Count(log, IsBusyLow) IN
        /\ result.kind = "Ok" => log = InitSequence(n)
        /\ \/ IsPrefix(Attempted(log), InitSequence(n))
           \/ IsPrefix(Attempted(log), InitHead \o Polling(n))

C1_Witness == DoneOk("new") /\ Count(log, IsBusyLow) = 2

----------------------------------------------------------------------------
(* C2 *)

\* C2: update_frame with a buffer of exactly WIDTH*HEIGHT/8 bytes sends,
\* apart from the events of its busy-waits, DataStartTransmissionBlackWhite,
\* the buffer unchanged, DataStartTransmissionChromatic and an all-zero burst
\* as long as the buffer, and nothing else.
C2_UpdateFrame ==
    (DoneOk("update_frame") /\ ByteLen(call.arg.buffer) = (WIDTH * HEIGHT) \div 8) =>
        LET w == SelectSeq(log, NotWaitEv) IN
        /\ Len(w) = 4
        /\ w[1] = CmdEv("DataStartTransmissionBlackWhite", NoErr)
        /\ w[2] = DataEv(call.arg.buffer, NoErr)
        /\ w[3] = CmdEv("DataStartTransmissionChromatic", NoErr)
        /\ w[4].k = "data" /\ w[4].err = NoErr
        /\ AllBytes(w[4].d, 0)
        /\ ByteLen(w[4].d) = ByteLen(call.arg.buffer)

C2_Witness ==
    /\ DoneOk("update_frame")
    /\ ByteLen(call.arg.buffer) = (WIDTH * HEIGHT) \div 8
    /\ Len(call.arg.buffer) = 3

----------------------------------------------------------------------------
(* C3 *)

\* C3: clear_frame sends, apart from the events of its busy-wait,
\* DataStartTransmissionBlackWhite, WIDTH*HEIGHT/8 bytes 0xFF,
\* DataStartTransmissionChromatic, WIDTH*HEIGHT/8 bytes 0x00 and then
\* DisplayRefresh, in that order.
C3_ClearFrame ==
    DoneOk("clear_frame") =>
        LET w == SelectSeq(log, NotWaitEv) IN
        /\ Len(w) = 5
        /\ w[1] = CmdEv("DataStartTransmissionBlackWhite", NoErr)
        /\ w[2].k = "data" /\ w[2].err = NoErr
        /\ AllBytes(w[2].d, 255) /\ ByteLen(w[2].d) = (WIDTH * HEIGHT) \div 8
        /\ w[3] = CmdEv("DataStartTransmissionChromatic", NoErr)
        /\ w[4].k = "data" /\ w[4].err = NoErr
        /\ AllBytes(w[4].d, 0) /\ ByteLen(w[4].d) = (WIDTH * HEIGHT) \div 8
        /\ w[5] = CmdEv("DisplayRefresh", NoErr)
        /\ log[Len(log)] = w[5]

C3_Witness == DoneOk("clear_frame") /\ Count(log, IsBusyLow) = 1

----------------------------------------------------------------------------
(* C4 *)

\* C4: update_partial_frame and set_lut, whatever their arguments and the
\* state of the driver, end in the fatal abort and never in a result, and
\* make no transport call.
C4_Unsupported ==
    call.op \in {"update_partial_frame", "set_lut"} =>
        /\ log = <<>>
        /\ result.kind \in {"Running", "Panic"}
        /\ ~Running => result.kind = "Panic"

C4_Witness ==
    /\ call.op = "update_partial_frame"
    /\ result.kind = "Panic"
    /\ color = "Black"
    /\ ByteLen(call.arg.buffer) = (WIDTH * HEIGHT) \div 8

----------------------------------------------------------------------------
(* C5 *)

\* C5: a byte write that fails is the last transport call of the operation:
\* the operation has returned, with the error of that write, and new has
\* handed out no driver value.
C5_WriteErrorIsTerminal ==
    \A i \in 1..Len(log) :
        IsFailed(log[i]) =>
            /\ i = Len(log)
            /\ ~Running
            /\ result = ErrRes(log[i].err)
            /\ call.op = "new" => ~epd

C5_Witness ==
    /\ Done("update_and_display_frame")
    /\ result = ErrRes("E2")
    /\ Len(log) > 0 /\ log[Len(log)] = CmdEv("Revision", "E2")
    /\ Count(log, IsWrite) > 5

----------------------------------------------------------------------------
(* C6 *)

\* the busy line read idle the first time new read it
IdleFromStart == Len(BusyLevels(log)) > 0 /\ BusyLevels(log)[1] = "high"

\* C6 as stated: with the busy line idle from the start, the initialization
\* completes after exactly one busy-poll iteration following PowerOn, an
\* iteration being one Revision status query, the fixed delay and a re-check
\* of the busy line.
C6_OnePollIteration ==
    (DoneOk("new") /\ IdleFromStart) =>
        /\ Count(log, IsRevision) = 1
        /\ Count(log, IsDelay20) = 1

\* C6, amended: with the busy line idle from the start, the initialization
\* completes after exactly one reading of the busy line, made right after
\* PowerOn and right before PanelSetting, with no status query and no delay;
\* the busy-wait is left on that reading.
C6_IdleInitReadsOnce ==
    /\ (DoneOk("new") /\ IdleFromStart) =>
          /\ Count(log, IsBusyRead) = 1
          /\ Count(log, IsRevision) = 0
          /\ Count(log, IsDelay20) = 0
          /\ log[Len(InitHead)] = CmdEv("PowerOn", NoErr)
          /\ log[Len(InitHead) + 1] = BusyEv("high")
          /\ log[Len(InitHead) + 2] = CmdEv("PanelSetting", NoErr)
    /\ (call.op = "new" /\ Running /\ Top.fn = "wait_until_idle"
            /\ Since(Top) = <<BusyEv("high")>>) =>
          Cur.i = "ok"

C6_Witness == DoneOk("new") /\ IdleFromStart

----------------------------------------------------------------------------
(* C7 *)

\* wait_until_idle has left its loop and is about to return Ok
WaitReturns == Running /\ Top.fn = "wait_until_idle" /\ Cur.i = "ok"

\* C7: when the busy line reads busy n times and then idle, wait_until_idle
\* has made, when it returns Ok, exactly n busy readings each followed by one
\* Revision status query and one 20 ms delay, and then the idle reading:
\* n status queries, n delays, n + 1 readings.
C7_PollsPerBusyReading ==
    WaitReturns =>
        LET seg == Since(Top)
            n == Count(seg, IsBusyLow) IN
        /\ seg = BusyWait(n)
        /\ Count(seg, IsRevision) = n
        /\ Count(seg, IsDelay20) = n
        /\ Count(seg, IsBusyRead) = n + 1

C7_Witness == WaitReturns /\ Count(Since(Top), IsBusyLow) = 3

----------------------------------------------------------------------------
(* C8 *)

\* the operation in flight has read the busy line in a busy-wait
ReachedWait == call.op # "is_busy" /\ Count(log, IsBusyRead) > 0

\* C8 as stated: with the busy line busy forever, an operation that has
\* reached a busy-wait never returns.
C8_NeverReturns == (stuck /\ ReachedWait) => Running

\* C8, amended: with the busy line busy forever, an operation that has
\* reached a busy-wait never returns Ok and never leaves that busy-wait
\* other than by a failed write of a status query, whose error it returns;
\* until then every busy reading is followed by a status query and the delay.
C8_NoTimeout ==
    (stuck /\ ReachedWait) =>
        \/ /\ Running
           /\ Top.fn = "wait_until_idle"
           /\ Cur.i # "ok"
           /\ LET seg == Since(Top)
                  n == Count(seg, IsBusyLow) IN
              IsPrefix(seg, Polling(n))
        \/ /\ ~Running
           /\ result.kind = "Err"
           /\ log[Len(log)] = CmdEv("Revision", result.err)

C8_Witness ==
    /\ stuck /\ Running /\ Top.fn = "wait_until_idle"
    /\ Count(Since(Top), IsDelay20) >= 3
    /\ call.op = "display_frame"

----------------------------------------------------------------------------
(* C9 *)

\* C9: sleep sends PowerOff, busy-waits, then sends DeepSleep with the one
\* data byte 0xA5; DeepSleep is sent only right after a busy reading that
\* reported idle, and sleep sends no opcode but these and the status queries.
C9_Sleep ==
    call.op = "sleep" =>
        /\ \A i \in 1..Len(log) :
              /\ log[i].k = "cmd" =>
                    log[i].c \in {"PowerOff", "Revision", "DeepSleep"}
              /\ (log[i].k = "cmd" /\ log[i].c = "DeepSleep") =>
                    /\ i > 2
                    /\ log[i - 1] = BusyEv("high")
                    /\ log[1] = CmdEv("PowerOff", NoErr)
        /\ result.kind = "Ok" =>
              log = <<CmdEv("PowerOff", NoErr)>>
                    \o BusyWait(Count(log, IsBusyLow))
                    \o <<CmdEv("DeepSleep", NoErr), DataEv(Slice(<<165>>), NoErr)>>

C9_Witness == DoneOk("sleep") /\ Count(log, IsBusyLow) = 2

----------------------------------------------------------------------------
(* C10 *)

\* C10: wake_up re-runs the initialization: when the busy line behaves for
\* wake_up as it did for new, wake_up makes exactly the transport calls the
\* initialization of new made, none left out.
C10_WakeUpIsInit ==
    (DoneOk("wake_up") /\ BusyLevels(log) = BusyLevels(newLog)) => log = newLog

C10_Witness ==
    /\ DoneOk("wake_up")
    /\ BusyLevels(log) = BusyLevels(newLog)
    /\ Count(log, IsBusyLow) = 1

----------------------------------------------------------------------------
(* C11 *)

IsRefresh(e) == e.k = "cmd" /\ e.c = "DisplayRefresh"
HasRefresh == Count(log, IsRefresh) > 0

\* C11 as stated: the DisplayRefresh opcode is sent only during
\* display_frame, alone or as the second half of update_and_display_frame,
\* and by no other public operation.
C11_RefreshOnlyInDisplayFrame ==
    HasRefresh => call.op \in {"display_frame", "update_and_display_frame"}

\* C11, amended: the DisplayRefresh opcode is sent only by display_frame,
\* alone or as the second half of update_and_display_frame (after the whole
\* update_frame part: both plane transfers), and by clear_frame.
C11_RefreshOnlyInDisplayOrClear ==
    /\ HasRefresh =>
          call.op \in {"display_frame", "update_and_display_frame", "clear_frame"}
    /\ call.op = "update_and_display_frame" =>
          \A i \in 1..Len(log) :
              IsRefresh(log[i]) =>
                  LET w == SelectSeq(SubSeq(log, 1, i - 1), NotWaitEv) IN
                  /\ Len(w) = 4
                  /\ w[1] = CmdEv("DataStartTransmissionBlackWhite", NoErr)
                  /\ w[3] = CmdEv("DataStartTransmissionChromatic", NoErr)
                  /\ w[4].k = "data" /\ w[4].err = NoErr

C11_Witness == DoneOk("update_and_display_frame") /\ HasRefresh

----------------------------------------------------------------------------
(* C12 *)

\* C12: update_color_frame sends DataStartTransmissionBlackWhite and the
\* black buffer unchanged, then DataStartTransmissionChromatic and the
\* chromatic buffer unchanged, and nothing else: what update_achromatic_frame
\* sends followed by what update_chromatic_frame sends.  When the achromatic
\* transfer fails the chromatic one is not started.
C12_ColorFrame ==
    /\ DoneOk("update_achromatic_frame") =>
          log = << CmdEv("DataStartTransmissionBlackWhite", NoErr),
                   DataEv(call.arg.buffer, NoErr) >>
    /\ DoneOk("update_chromatic_frame") =>
          log = << CmdEv("DataStartTransmissionChromatic", NoErr),
                   DataEv(call.arg.chromatic, NoErr) >>
    /\ DoneOk("update_color_frame") =>
          log = << CmdEv("DataStartTransmissionBlackWhite", NoErr),
                   DataEv(call.arg.buffer, NoErr),
                   CmdEv("DataStartTransmissionChromatic", NoErr),
                   DataEv(call.arg.chromatic, NoErr) >>
    /\ call.op = "update_color_frame" =>
          /\ IsPrefix(Attempted(log),
                      << CmdEv("DataStartTransmissionBlackWhite", NoErr),
                         DataEv(call.arg.buffer, NoErr),
                         CmdEv("DataStartTransmissionChromatic", NoErr),
                         DataEv(call.arg.chromatic, NoErr) >>)
          /\ \A i \in 1..Len(log) :
                (i <= 2 /\ IsFailed(log[i])) => (Len(log) = i /\ ~Running)

C12_Witness ==
    /\ DoneOk("update_color_frame")
    /\ call.arg.buffer # call.arg.chromatic
    /\ ByteLen(call.arg.buffer) = ByteLen(call.arg.chromatic)

----------------------------------------------------------------------------
(* C13 *)

\* C13: busy means low: the public is_busy reads the busy line once and
\* returns true exactly when it read low; the busy-wait goes by the same
\* polarity: after a low reading wait_until_idle stays in its loop and sends
\* the status query, and after a high reading, exactly when is_busy would
\* return false, it leaves the loop and returns.
C13_BusyPolarity ==
    /\ Done("is_busy") =>
          /\ Len(log) = 1 /\ IsBusyRead(log[1])
          /\ result.kind = "Ok"
          /\ result.val = (log[1].c = "low")
    /\ (Running /\ Top.fn = "wait_until_idle" /\ Len(Since(Top)) > 0
           /\ IsBusyRead(log[Len(log)])) =>
          /\ log[Len(log)].c = "low" => Cur = interface_cmd("Revision", "try")[1]
          /\ log[Len(log)].c = "high" => Cur.i = "ok"
    /\ (Running /\ Top.fn = "wait_until_idle" /\ Cur.i = "ok") =>
          log[Len(log)] = BusyEv("high")

C13_Witness == Done("is_busy") /\ result.val = TRUE /\ log = <<BusyEv("low")>>

----------------------------------------------------------------------------
(* C14 *)

IsFrameOpcode(e) ==
    /\ e.k = "cmd"
    /\ e.c \in {"DataStartTransmissionBlackWhite", "DataStartTransmissionChromatic",
                "DisplayRefresh"}

\* C14 as stated: between a completed sleep and the next completed wake_up
\* no DataStartTransmissionBlackWhite, DataStartTransmissionChromatic or
\* DisplayRefresh opcode is sent, whatever the caller calls.
C14_NoUpdateWhileSlept == slept => Count(log, IsFrameOpcode) = 0

\* C14, amended: the driver keeps no sleeping state and refuses nothing:
\* between a completed sleep and the next completed wake_up those opcodes
\* are sent exactly by the update, display and clear operations the caller
\* invokes, which run as on an awake panel; sleep, wake_up, is_busy and
\* set_background_color send none of them, so a caller that calls wake_up
\* before its next update sends none in between.
C14_SleptUpdatesAreCallers ==
    slept =>
        /\ Count(log, IsFrameOpcode) > 0 =>
              call.op \in {"update_frame", "update_and_display_frame",
                           "update_color_frame", "update_achromatic_frame",
                           "update_chromatic_frame", "display_frame", "clear_frame"}
        /\ DoneOk("update_frame") => Count(log, IsFrameOpcode) = 2
        /\ DoneOk("clear_frame") => Count(log, IsFrameOpcode) = 3

C14_Witness == slept /\ DoneOk("update_frame")

----------------------------------------------------------------------------
(* C15 *)

\* C15: display_frame sends DisplayRefresh, then makes one delay of 100 ms
\* (at least 1 ms) before it reads the busy line for the first time, also
\* when the panel is idle at once, then busy-waits; it returns Ok only after
\* a busy reading that reported idle.
C15_DisplayFrame ==
    call.op = "display_frame" =>
        /\ \A i \in 1..Len(log) :
              IsBusyRead(log[i]) =>
                  /\ i >= 3
                  /\ log[1] = CmdEv("DisplayRefresh", NoErr)
                  /\ log[2].k = "delay" /\ log[2].n >= 1 /\ log[2].n = 100
        /\ result.kind = "Ok" =>
              /\ log = <<CmdEv("DisplayRefresh", NoErr), DelayEv(100)>>
                       \o BusyWait(Count(log, IsBusyLow))
              /\ log[Len(log)] = BusyEv("high")

C15_Witness == DoneOk("display_frame") /\ Count(log, IsBusyLow) = 0

----------------------------------------------------------------------------
(* C16 *)

IsData(e) == e.k = "data"
\* the position of the last event of l that satisfies Test, 0 if none does
LastIndex(l, Test(_)) ==
    LET S == {i \in 1..Len(l) : Test(l[i])} IN
    IF S = {} THEN 0 ELSE CHOOSE i \in S : \A j \in S : j <= i

\* C16: update_frame sends DataStartTransmissionBlackWhite only right after
\* a busy reading that reported idle, with nothing but busy-wait events
\* before it, and after the chromatic zero burst it busy-waits again: it
\* returns Ok only after a further busy reading that reported idle.
C16_UpdateFrameBracketed ==
    call.op = "update_frame" =>
        /\ \A i \in 1..Len(log) :
              (log[i].k = "cmd" /\ log[i].c = "DataStartTransmissionBlackWhite") =>
                  /\ i > 1
                  /\ log[i - 1] = BusyEv("high")
                  /\ SubSeq(log, 1, i - 1) = BusyWait(i \div 3)
        /\ result.kind = "Ok" =>
              LET j == LastIndex(log, IsData)
                  rest == SubSeq(log, j + 1, Len(log)) IN
              /\ j > 0 /\ AllBytes(log[j].d, 0)
              /\ log[j - 1] = CmdEv("DataStartTransmissionChromatic", NoErr)
              /\ rest = BusyWait(Count(rest, IsBusyLow))

C16_Witness ==
    /\ DoneOk("update_frame")
    /\ log[1] = BusyEv("low")
    /\ log[Len(log) - 1] = DelayEv(20)

----------------------------------------------------------------------------
(* C17 *)

\* C17: clear_frame busy-waits before its first plane write, and the
\* DisplayRefresh opcode is its last transport call: no delay, no busy
\* reading and no status query follows it, so clear_frame returns Ok without
\* having looked at the busy line after the refresh.
C17_ClearFrameReturnsAtOnce ==
    call.op = "clear_frame" =>
        /\ \A i \in 1..Len(log) :
              /\ IsWrite(log[i]) /\ ~IsRevision(log[i])
                    /\ (\A j \in 1..(i - 1) : IsWaitEv(log[j])) =>
                    /\ i > 1
                    /\ SubSeq(log, 1, i - 1) = BusyWait(i \div 3)
              /\ IsRefresh(log[i]) => i = Len(log)
        /\ result.kind = "Ok" => IsRefresh(log[Len(log)])

C17_Witness ==
    /\ DoneOk("clear_frame")
    /\ IsRefresh(log[Len(log)])
    /\ Count(log, IsBusyLow) = 2

----------------------------------------------------------------------------
(* C18 *)

\* C18: update_frame, update_color_frame, update_achromatic_frame and
\* update_chromatic_frame never send the DisplayRefresh opcode, whatever the
\* buffers and the busy line.
C18_UpdateDoesNotRefresh ==
    call.op \in {"update_frame", "update_color_frame",
                 "update_achromatic_frame", "update_chromatic_frame"} =>
        ~HasRefresh

C18_Witness ==
    /\ DoneOk("update_chromatic_frame")
    /\ ByteLen(call.arg.chromatic) = (WIDTH * HEIGHT) \div 8

----------------------------------------------------------------------------
(* C20 *)

Plane(b) == Norm(<<Run(b, (WIDTH * HEIGHT) \div 8)>>)

UpdateWire(buffer) ==
    << CmdEv("DataStartTransmissionBlackWhite", NoErr), DataEv(buffer, NoErr),
       CmdEv("DataStartTransmissionChromatic", NoErr), DataEv(Plane(0), NoErr) >>
DisplayWire == << CmdEv("DisplayRefresh", NoErr), DelayEv(100) >>

\* What a completed operation puts on the wire besides the events of its
\* busy-waits, as a function of the operation and its buffers alone.
Wire(op, arg) ==
    CASE op \in {"new", "wake_up"} -> InitHead \o InitTail
      [] op = "sleep" ->
            << CmdEv("PowerOff", NoErr),
               CmdEv("DeepSleep", NoErr), DataEv(Slice(<<165>>), NoErr) >>
      [] op = "update_frame" -> UpdateWire(arg.buffer)
      [] op = "update_and_display_frame" -> UpdateWire(arg.buffer) \o DisplayWire
      [] op = "display_frame" -> DisplayWire
      [] op = "update_achromatic_frame" ->
            << CmdEv("DataStartTransmissionBlackWhite", NoErr),
               DataEv(arg.buffer, NoErr) >>
      [] op = "update_chromatic_frame" ->
            << CmdEv("DataStartTransmissionChromatic", NoErr),
               DataEv(arg.chromatic, NoErr) >>
      [] op = "update_color_frame" ->
            << CmdEv("DataStartTransmissionBlackWhite", NoErr),
               DataEv(arg.buffer, NoErr),
               CmdEv("DataStartTransmissionChromatic", NoErr),
               DataEv(arg.chromatic, NoErr) >>
      [] op = "clear_frame" ->
            << CmdEv("DataStartTransmissionBlackWhite", NoErr),
               DataEv(Plane(255), NoErr),
               CmdEv("DataStartTransmissionChromatic", NoErr),
               DataEv(Plane(0), NoErr),
               CmdEv("DisplayRefresh", NoErr) >>
      [] op \in {"set_background_color", "is_busy"} -> <<>>

\* the stored colour is White when new returns and has no part in what a
\* completed operation sends
ColorOffTheWire ==
    /\ DoneOk("new") => color = "White"
    /\ (~Running /\ result.kind = "Ok") =>
          SelectSeq(log, NotWaitEv) = Wire(call.op, call.arg)

\* a step changes the stored colour only in the construction by new, to
\* White, and in set_background_color, to its argument
ColorSetOnlyBySetter ==
    color' # color =>
        \/ call.op = "new" /\ Top.fn = "new" /\ color' = "White"
        \/ /\ call.op = "set_background_color"
           /\ Top.fn = "set_background_color"
           /\ color' = call.arg.color

\* C20: the stored background colour is White after new, is changed only
\* by set_background_color, and has no influence on the wire: what an
\* operation sends is fixed by the operation, its buffers and the busy
\* readings, the same for every colour; clear_frame fills the achromatic
\* plane with 0xFF whatever the colour.
C20_BackgroundColor == []ColorOffTheWire /\ [][ColorSetOnlyBySetter]_vars

C20_Witness == DoneOk("clear_frame") /\ color = "Black"

----------------------------------------------------------------------------
(* C19 *)

HasFailed == Count(log, IsFailed) > 0

\* C19: when the busy line reports idle in the end during every busy-wait,
\* every public operation other than update_partial_frame and set_lut
\* returns, and returns Ok unless a transport write failed; and whatever the
\* busy line does, an operation that never returns is inside
\* wait_until_idle with the line held busy.
C19_Terminates ==
    /\ (Running /\ ~stuck /\ call.op \notin {"update_partial_frame", "set_lut"})
          ~> (~Running /\ (HasFailed \/ result.kind = "Ok"))
    /\ Running ~> (~Running \/ (stuck /\ Top.fn = "wait_until_idle"))

C19_Witness ==
    /\ DoneOk("update_and_display_frame")
    /\ ~HasFailed
    /\ Count(log, IsBusyLow) = 3 * MaxPolls

====
